---- MODULE Spec2Model ----
(***************************************************************************)
(* Model of the Player class of src/src/index.ts: the play queue, the       *)
(* play order, the playing pointer, the play / shuffle / loop flags, the    *)
(* current and the preloaded audio element, and the asynchronous steps of   *)
(* the playback backend (HTMLAudioElement.play() promises, timeupdate,      *)
(* ended and canplaythrough events).                                        *)
(*                                                                         *)
(* Every method of the class is an operator from a state record to a state  *)
(* record, so that a method calling another is operator application; an     *)
(* action of the model is one run-to-completion task of the event loop: a   *)
(* call up to its first real suspension (an await on play()), a settled     *)
(* promise with the continuation that follows it, or a backend event with   *)
(* its listener. Awaits on values that are already settled resume in a      *)
(* microtask and are part of the same action.                               *)
(*                                                                         *)
(* The AudioContext is taken to be running (index.ts:543 is not taken).     *)
(* A run holds at most MaxCalls calls of the caller, interleaved with any   *)
(* number of backend events; a settled play() promise continues before any  *)
(* other task starts.                                                       *)
(***************************************************************************)
EXTENDS Integers, Sequences, FiniteSets, TLC

\* ---------------------------------------------------------------- bounds

\* Longest queue a caller builds (replaceQueue input plus appended tracks).
MaxQueue == 3
\* Most unreferenced audio elements that are still live in the backend.
MaxOrphans == 2
\* Most play() promises of one element that are unsettled at a time.
MaxPending == 2
\* Most calls the caller makes in a run; the backend's events are not counted.
MaxCalls == 5

\* Length in seconds of every track of the model.
TrackLen == 100
\* Playback positions the model distinguishes: start, under the restart
\* threshold, outside the preload window, inside it, end of track.
TimePoints == {0, 3, 40, 51, TrackLen}

\* ------------------------------------------------------- audio elements

\* this.currentAudio / this.nextAudio = null
Null == [null |-> TRUE]

\* queue[i] of an index that is out of range
Undefined == 0

\* new Audio(url): paused, at time 0, full volume, nothing loaded yet.
\*   ready: "no" (duration NaN), "yes" (metadata loaded), "bad" (load failed)
\*   lis:   the ended / timeupdate listeners of the player are attached
\*   cpt:   the once-only canplaythrough listener of scheduleNext is armed
\*   pend:  the continuations awaiting a play() promise of this element
NewAudio(url) ==
    [url |-> url, paused |-> TRUE, time |-> 0, volume |-> 1, ready |-> "no",
     lis |-> FALSE, cpt |-> FALSE, pend |-> {}]

\* A continuation that awaits a play() promise of the element e: k is the
\* await, caller the call that is suspended at it, err the error the promise
\* rejects with ("none" while it can still resolve), dup tells apart the
\* promises of several requests made at the same await
Awaiting(e, cont, err) ==
    LET same == {c.dup : c \in {d \in e.pend : d.k = cont[1] /\ d.caller = cont[2]}}
        dup == CHOOSE i \in 0..Cardinality(same) : i \notin same /\ \A j \in 0..(i - 1) : j \in same
    IN  [k |-> cont[1], caller |-> cont[2], err |-> err, dup |-> dup]

\* HTMLMediaElement.play(): refused at once by the autoplay policy (the
\* element stays paused and the promise rejects with NotAllowedError), or
\* accepted: paused becomes false, an ended element restarts from 0, and the
\* promise settles later.
Play(e, cont, allow) ==
    IF allow
    THEN [e EXCEPT !.paused = FALSE,
                   !.time = IF @ = TrackLen THEN 0 ELSE @,
                   !.pend = @ \cup {Awaiting(e, cont, "none")}]
    ELSE [e EXCEPT !.pend = @ \cup {Awaiting(e, cont, "NotAllowedError")}]

\* HTMLMediaElement.pause(): the element is paused and its pending play()
\* promises reject with AbortError.
Pause(e) ==
    [e EXCEPT !.paused = TRUE,
              !.pend = {IF c.err = "none" THEN [c EXCEPT !.err = "AbortError"] ELSE c : c \in @}]

\* The element produces sound.
Audible(e) ==
    e # Null /\ ~e.paused /\ e.ready = "yes" /\ e.time < TrackLen /\ e.volume > 0

\* The backend can still run code of the player for this element, or plays it.
Live(e) ==
    /\ e # Null
    /\ \/ e.pend # {}
       \/ ~e.paused /\ e.ready = "yes"
       \/ e.cpt /\ e.ready = "no"

\* An element the player no longer references: kept while it is live. No
\* code reads the url or the position of an unreferenced element, so they
\* are not tracked.
Drop(s, e) ==
    IF Live(e) THEN [s EXCEPT !.orphans = @ \cup {[e EXCEPT !.url = 0, !.time = 0]}] ELSE s

\* ------------------------------------------------------- order manager

\* queue.length
QLen(s) == Len(s.queue)

\* [0, 1, ..., n-1]: the loops of index.ts:86-88 and index.ts:1052-1055
Identity(n) == [i \in 1..n |-> i - 1]

\* order[i] of the 0-based index i; -1 stands for undefined
OrderAt(s, i) == IF i \in 0..(Len(s.order) - 1) THEN s.order[i + 1] ELSE -1

\* queue[j] of the 0-based index j
QueueAt(s, j) == IF j \in 0..(QLen(s) - 1) THEN s.queue[j + 1] ELSE Undefined

\* restoreOriginalOrder that leaves the order as it is: a fault C38 must tell
\* from the code
restoreOriginalOrderKeep(s) == s

\* restoreOriginalOrder: the order becomes the identity; the pointer follows
\* the current item only when the current element has played or is playing.
restoreOriginalOrder(s) ==
    LET currentPlaying == OrderAt(s, s.ptr)
        hasActivePlayback == s.cur # Null /\ (s.cur.time > 0 \/ ~s.cur.paused)
        found == IF currentPlaying \in 0..(QLen(s) - 1) THEN currentPlaying ELSE -1
    IN  [s EXCEPT !.order = Identity(QLen(s)),
                  !.ptr = IF hasActivePlayback
                          THEN (IF found = -1 THEN 0 ELSE found)
                          ELSE @]

\* "If order array is empty, initialize it" of fetchQueue and
\* getActualQueueIndex
EnsureOrder(s) == IF Len(s.order) = 0 THEN restoreOriginalOrder(s) ELSE s

\* getActualQueueIndex(orderIndex), on a state whose order was ensured:
\* order[orderIndex] ?? orderIndex
getActualQueueIndex(s, orderIndex) ==
    IF OrderAt(s, orderIndex) = -1 THEN orderIndex ELSE OrderAt(s, orderIndex)

\* getCurrentTrack(), on a state whose order was ensured
getCurrentTrack(s) == QueueAt(s, getActualQueueIndex(s, s.ptr))

\* The draws of Math.random in the loop of shuffleQueue over n entries:
\* rnd[i] is floor(random * (i + 1)), a value of 0..i.
RandomDraws(n) == {r \in [1..(n - 1) -> 0..(n - 1)] : \A i \in 1..(n - 1) : r[i] <= i}

\* The Fisher-Yates loop: for i = length-1 down to 1, swap a[i] and a[rnd[i]]
RECURSIVE FisherYates(_, _, _)
FisherYates(a, i, rnd) ==
    IF i <= 0 THEN a
    ELSE FisherYates([a EXCEPT ![i + 1] = a[rnd[i] + 1], ![rnd[i] + 1] = a[i + 1]],
                     i - 1, rnd)

\* StartShuffleFrom with the current entry not kept: a fault C9 must tell
\* from the code
StartShuffleFromCurrent(s) ==
    LET shouldKeepPrevious ==
            s.isPlaying \/ s.ptr > 0 \/ (s.cur # Null /\ s.cur.time # 0)
    IN  IF shouldKeepPrevious THEN s.ptr ELSE 0

\* First index shuffleQueue shuffles
StartShuffleFrom(s) ==
    LET shouldKeepPrevious ==
            s.isPlaying \/ s.ptr > 0 \/ (s.cur # Null /\ s.cur.time # 0)
    IN  IF shouldKeepPrevious THEN s.ptr + 1 ELSE 0

\* shuffleQueue: the queue indices below startShuffleFrom in place, the
\* others shuffled behind them.
shuffleQueue(s, rnd) ==
    LET n == QLen(s)
        from == StartShuffleFrom(s)
        k == IF from <= 0 THEN 0 ELSE IF from >= n THEN n ELSE from
        keepRemainRange == [i \in 1..k |-> i - 1]
        shuffleRange == [i \in 1..(n - k) |-> k + i - 1]
    IN  [s EXCEPT !.order = keepRemainRange \o FisherYates(shuffleRange, n - k - 1, rnd)]

\* ------------------------------------------------------- notifications

\* playStateListeners.forEach(listener => listener(v))
NotifyPlayState(s, v) ==
    [s EXCEPT !.playNotes = Append(@, v), !.lastPlayNote = IF v THEN "true" ELSE "false"]

\* shuffleListeners.forEach(listener => listener(v))
NotifyShuffle(s, v) ==
    [s EXCEPT !.shuffleHeard = [l \in s.shuffleListeners |-> v]]

\* loopListeners.forEach(listener => listener(v))
NotifyLoop(s, v) ==
    [s EXCEPT !.loopHeard = [l \in s.loopListeners |-> v]]

\* fetchQueue, for its effect on the state
fetchQueue(s) == EnsureOrder(s)

\* RECURSIVE helper of fetchQueue: the items at the entries i.. of the order,
\* an entry without an item skipped
RECURSIVE OrderedFrom(_, _)
OrderedFrom(s, i) ==
    IF i > Len(s.order) THEN <<>>
    ELSE (IF QueueAt(s, s.order[i]) # Undefined
          THEN <<QueueAt(s, s.order[i])>> ELSE <<>>) \o OrderedFrom(s, i + 1)

\* fetchQueue, for the value it returns: a structuredClone of the items in
\* play order, which shares nothing with the queue
orderedQueue(s) == OrderedFrom(EnsureOrder(s), 1)

\* notifyQueueChange
notifyQueueChange(s) == fetchQueue(s)

\* reportMetadata: reads the current track
reportMetadata(s) == EnsureOrder(s)

\* The call named call completed in this action: "ok" (its promise
\* resolved), "rejected" (its promise rejected to the caller) or "unhandled"
\* (a promise nobody awaits rejected).
Completed(s, call, res) == [s EXCEPT !.rets = @ \cup {[call |-> call, res |-> res]}]

\* ------------------------------------------------------- progress timer

\* stopProgressUpdates
stopProgressUpdates(s) == [s EXCEPT !.progressTimer = FALSE]

\* startProgressUpdates
startProgressUpdates(s) == [s EXCEPT !.progressTimer = TRUE]

\* ------------------------------------------------------- preloading

\* Seconds before the end at which the next track is preloaded
PreloadLead == 20

\* The preload window without its second half-of-the-track clause: a fault
\* C30 must tell from the code
InPreloadWindowLate(e) ==
    e.ready = "yes" /\ TrackLen - e.time < PreloadLead

\* "timeRemaining < 20 || currentTime > halfwayPoint" of the element e; both
\* comparisons are false while the duration is NaN.
InPreloadWindow(e) ==
    e.ready = "yes" /\ (TrackLen - e.time < PreloadLead \/ 2 * e.time > TrackLen)

\* scheduleNext, from "Create and preload the next audio element" on
Preload(s0, nextPointer) ==
    LET s == EnsureOrder(s0)
        nextTrack == QueueAt(s, getActualQueueIndex(s, nextPointer))
    IN  IF nextTrack = Undefined THEN s
        ELSE [s EXCEPT !.nxt = [NewAudio(nextTrack) EXCEPT !.cpt = TRUE],
                       !.created = @ + 1]

\* scheduleNext without its return for loop mode single_track: a fault C31
\* must tell from the code
scheduleNextAnyLoop(s) ==
    IF s.nxt # Null THEN s
    ELSE IF s.ptr + 1 >= QLen(s)
         THEN (IF s.loop = "entire_queue" /\ QLen(s) > 0 THEN Preload(s, 0) ELSE s)
         ELSE Preload(s, s.ptr + 1)

\* scheduleNext
scheduleNext(s) ==
    IF s.nxt # Null THEN s
    ELSE IF s.loop = "single_track" THEN s
    ELSE IF s.ptr + 1 >= QLen(s)
         THEN (IF s.loop = "entire_queue" /\ QLen(s) > 0 THEN Preload(s, 0) ELSE s)
         ELSE Preload(s, s.ptr + 1)

\* The timeupdate listener the player attaches to a current element
onTimeUpdate(s) ==
    IF s.cur # Null /\ s.nxt = Null /\ InPreloadWindow(s.cur) THEN scheduleNext(s) ELSE s

\* updateNextTrackSchedule that never cancels a preloaded element: a fault
\* C32 must tell from the code
updateNextTrackScheduleKeep(s) ==
    IF s.cur = Null \/ s.cur.ready # "yes" THEN s
    ELSE IF InPreloadWindow(s.cur) /\ s.nxt = Null THEN scheduleNext(s)
    ELSE s

\* updateNextTrackSchedule
updateNextTrackSchedule(s) ==
    IF s.cur = Null \/ s.cur.ready # "yes" THEN s
    ELSE IF InPreloadWindow(s.cur) /\ s.nxt = Null THEN scheduleNext(s)
    ELSE IF ~InPreloadWindow(s.cur) /\ s.nxt # Null
         THEN Drop([s EXCEPT !.nxt = Null], s.nxt)
         ELSE s

\* ------------------------------------------------------- scheduler

\* startPlay, up to its await on play(); caller is the call awaiting it
startPlay(s0, caller, allow) ==
    LET s == EnsureOrder(s0)
        currentTrack == getCurrentTrack(s)
    IN  IF s.cur # Null /\ s.cur.paused
        THEN [s EXCEPT !.plays = @ + 1,
                 !.cur = Play(@, <<"startPlay.resume", caller>>, allow)]
        ELSE LET s1 == IF s.cur = Null /\ currentTrack # Undefined
                       THEN [s EXCEPT !.cur = [NewAudio(currentTrack) EXCEPT !.lis = TRUE],
                                      !.created = @ + 1]
                       ELSE s
             IN  IF s1.cur = Null
                 THEN Completed(s1, caller, "ok")
                 ELSE [s1 EXCEPT !.plays = @ + 1,
                 !.cur = Play(@, <<"startPlay.play", caller>>, allow)]

\* pausePlay
pausePlay(s) ==
    [s EXCEPT !.cur = IF @ # Null THEN Pause(@) ELSE @,
              !.nxt = IF @ # Null THEN Pause(@) ELSE @]

\* togglePlaying without the early return of index.ts:211: a fault C5 must
\* tell from the code
togglePlayingAgain(s, playing, allow) ==
    LET newState == IF playing = "undefined" THEN ~s.isPlaying ELSE playing = "true"
        s1 == [s EXCEPT !.isPlaying = newState]
        s2 == IF newState /\ s1.progressListeners # {}
              THEN startProgressUpdates(s1)
              ELSE stopProgressUpdates(s1)
        s3 == reportMetadata(NotifyPlayState(s2, newState))
    IN  IF newState
        THEN startPlay(s3, "togglePlaying", allow)
        ELSE Completed(pausePlay(s3), "togglePlaying", "ok")

\* togglePlaying(playing), playing one of "true", "false", "undefined"
togglePlaying(s, playing, allow) ==
    LET newState == IF playing = "undefined" THEN ~s.isPlaying ELSE playing = "true"
    IN  IF s.isPlaying = newState THEN Completed(s, "togglePlaying", "ok")
        ELSE LET s1 == [s EXCEPT !.isPlaying = newState]
                 s2 == IF newState /\ s1.progressListeners # {}
                       THEN startProgressUpdates(s1)
                       ELSE stopProgressUpdates(s1)
                 s3 == reportMetadata(NotifyPlayState(s2, newState))
             IN  IF newState
                 THEN startPlay(s3, "togglePlaying", allow)
                 ELSE Completed(pausePlay(s3), "togglePlaying", "ok")

\* playNext, up to its first await
playNext(s, allow) ==
    IF s.nxt = Null
    THEN IF s.ptr + 1 < QLen(s)
         THEN startPlay([s EXCEPT !.ptr = @ + 1], "playNext", allow)
         ELSE IF s.loop = "entire_queue" /\ QLen(s) > 0
              THEN startPlay([s EXCEPT !.ptr = 0], "playNext", allow)
              ELSE Completed(togglePlaying(s, "false", allow), "playNext", "ok")
    ELSE [s EXCEPT !.plays = @ + 1,
                 !.nxt = Play([@ EXCEPT !.volume = 0], <<"playNext.guard", "playNext">>, allow)]

\* playNext, from the settled play() of the readiness guard (index.ts:695)
\* to the await on the promoted element's play() (index.ts:754)
playNextPromote(s, ok, allow) ==
    LET s1 == IF ok /\ s.nxt # Null
              THEN [s EXCEPT !.nxt = [Pause(@) EXCEPT !.time = 0, !.volume = 1]]
              ELSE s
        s2 == IF s1.cur # Null THEN Drop(s1, Pause(s1.cur)) ELSE s1
        s3 == [s2 EXCEPT !.cur = s1.nxt,
                         !.ptr = IF @ + 1 >= QLen(s) /\ s.loop = "entire_queue" THEN 0 ELSE @ + 1,
                         !.nxt = Null]
    IN  IF s3.cur = Null
        THEN Completed(s3, "playNext", "unhandled")
        ELSE [s3 EXCEPT !.plays = @ + 1,
                 !.cur = Play([@ EXCEPT !.lis = TRUE, !.time = 0, !.volume = 1],
                                     <<"playNext.play", "playNext">>, allow)]

\* playNext, after the promoted element's play() settled (index.ts:755-770)
playNextStarted(s, ok, allow) ==
    IF ok THEN Completed(notifyQueueChange(reportMetadata(EnsureOrder(s))), "playNext", "ok")
    ELSE IF s.ptr + 1 < QLen(s)
         THEN startPlay([s EXCEPT !.ptr = @ + 1], "playNext", allow)
         ELSE Completed(s, "playNext", "ok")

\* handleTrackEnd without its single_track branch: a fault C14 must tell
\* from the code
handleTrackEndNoRepeat(s, allow) ==
    IF s.ptr + 1 >= QLen(s)
    THEN IF s.loop = "entire_queue"
         THEN playNext([s EXCEPT !.ptr = -1], allow)
         ELSE togglePlaying(s, "false", allow)
    ELSE playNext(s, allow)

\* handleTrackEnd leaving the play state alone at the end of the queue: a
\* fault C15 must tell from the code
handleTrackEndNoStop(s, allow) ==
    IF s.loop = "single_track"
    THEN IF s.cur # Null
         THEN [s EXCEPT !.plays = @ + 1,
                 !.cur = Play([@ EXCEPT !.time = 0], <<"loop.play", "handleTrackEnd">>, allow)]
         ELSE s
    ELSE IF s.ptr + 1 >= QLen(s)
         THEN IF s.loop = "entire_queue"
              THEN playNext([s EXCEPT !.ptr = -1], allow)
              ELSE s
         ELSE playNext(s, allow)

\* handleTrackEnd playing the last position again at the end of a looping
\* queue: a fault C24 must tell from the code
handleTrackEndNoWrap(s, allow) ==
    IF s.loop = "single_track"
    THEN IF s.cur # Null
         THEN [s EXCEPT !.plays = @ + 1,
                 !.cur = Play([@ EXCEPT !.time = 0], <<"loop.play", "handleTrackEnd">>, allow)]
         ELSE s
    ELSE IF s.ptr + 1 >= QLen(s)
         THEN IF s.loop = "entire_queue"
              THEN playNext([s EXCEPT !.ptr = @ - 1], allow)
              ELSE togglePlaying(s, "false", allow)
         ELSE playNext(s, allow)

\* handleTrackEnd
handleTrackEnd(s, allow) ==
    IF s.loop = "single_track"
    THEN IF s.cur # Null
         THEN [s EXCEPT !.plays = @ + 1,
                 !.cur = Play([@ EXCEPT !.time = 0], <<"loop.play", "handleTrackEnd">>, allow)]
         ELSE s
    ELSE IF s.ptr + 1 >= QLen(s)
         THEN IF s.loop = "entire_queue"
              THEN playNext([s EXCEPT !.ptr = -1], allow)
              ELSE togglePlaying(s, "false", allow)
         ELSE playNext(s, allow)

\* switchToTrack(trackIndex)
switchToTrack(s, trackIndex) ==
    IF trackIndex < 0 \/ trackIndex >= QLen(s) THEN s
    ELSE LET s1 == IF s.cur # Null THEN Drop([s EXCEPT !.cur = Null], Pause(s.cur)) ELSE s
             s2 == IF s1.nxt # Null THEN Drop([s1 EXCEPT !.nxt = Null], s1.nxt) ELSE s1
             s3 == EnsureOrder([s2 EXCEPT !.ptr = trackIndex])
             track == getCurrentTrack(s3)
             s4 == [s3 EXCEPT !.cur = [NewAudio(track) EXCEPT !.lis = TRUE],
                              !.created = @ + 1]
             s5 == IF s4.progressListeners # {}
                   THEN [s4 EXCEPT !.progressNotes = Append(@,
                            [currentTime |-> 0, duration |-> 0, percentage |-> 0])]
                   ELSE s4
         IN  IF track = Undefined THEN s3
             ELSE notifyQueueChange(reportMetadata(s5))

\* ------------------------------------------------------- public methods

\* replaceQueue(queue)
replaceQueue(s, q) ==
    LET s1 == [s EXCEPT !.queue = q, !.callerArray = TRUE,
                        !.shuffle = FALSE, !.loop = "off", !.cur = Null]
        s2 == IF s.cur # Null THEN Drop(s1, s.cur) ELSE s1
    IN  notifyQueueChange([s2 EXCEPT !.order = Identity(Len(q))])

\* appendTrack putting the new entry first in the order: a fault C12 must
\* tell from the code
appendTrackFirst(s, track) ==
    notifyQueueChange([s EXCEPT !.queue = Append(@, track),
                                !.order = <<Len(s.order)>> \o @])

\* appendTrack pushing the new length of the queue onto the order: a fault C1
\* must tell from the code
appendTrackNewLength(s, track) ==
    notifyQueueChange([s EXCEPT !.queue = Append(@, track),
                                !.order = Append(@, Len(s.order) + 1)])

\* appendTrack(track)
appendTrack(s, track) ==
    notifyQueueChange([s EXCEPT !.queue = Append(@, track),
                                !.order = Append(@, Len(s.order))])

\* toggleShuffle(shuffle), shuffle one of "true", "false", "undefined"
toggleShuffle(s, shuffle, rnd) ==
    LET newState == IF shuffle = "undefined" THEN ~s.shuffle ELSE shuffle = "true"
    IN  IF s.shuffle = newState THEN s
        ELSE LET s1 == [s EXCEPT !.shuffle = newState]
                 s2 == IF newState THEN shuffleQueue(s1, rnd)
                                   ELSE restoreOriginalOrder(s1)
             IN  notifyQueueChange(NotifyShuffle(s2, newState))

\* toggleLoop(mode), mode a loop mode or "undefined"
toggleLoop(s, mode) ==
    LET newMode == IF mode # "undefined" THEN mode
                   ELSE IF s.loop = "off" THEN "entire_queue"
                   ELSE IF s.loop = "entire_queue" THEN "single_track"
                   ELSE "off"
    IN  IF newMode = s.loop THEN s
        ELSE NotifyLoop([s EXCEPT !.loop = newMode], newMode)

\* skipToNext going round to the first position at the end of the order
\* under loop entire_queue: a fault C40 must tell from the code
skipToNextWrap(s, allow) ==
    LET target == IF s.ptr + 1 < QLen(s) THEN s.ptr + 1
                  ELSE IF s.loop = "entire_queue" THEN 0 ELSE -1
    IN  IF target >= 0
        THEN LET s1 == switchToTrack(s, target)
             IN  IF s.isPlaying THEN startPlay(s1, "skipToNext", allow)
                 ELSE Completed(s1, "skipToNext", "ok")
        ELSE Completed(s, "skipToNext", "ok")

\* skipToNext
skipToNext(s, allow) ==
    IF s.ptr + 1 < QLen(s)
    THEN LET s1 == switchToTrack(s, s.ptr + 1)
         IN  IF s.isPlaying THEN startPlay(s1, "skipToNext", allow)
             ELSE Completed(s1, "skipToNext", "ok")
    ELSE Completed(s, "skipToNext", "ok")

\* Seconds of progress from which skipToPrevious restarts the current track
RestartThreshold == 5

\* skipToPrevious
skipToPrevious(s, allow) ==
    IF (IF s.cur # Null THEN s.cur.time ELSE 0) < RestartThreshold /\ s.ptr > 0
    THEN LET s1 == switchToTrack(s, s.ptr - 1)
         IN  IF s.isPlaying THEN startPlay(s1, "skipToPrevious", allow)
             ELSE Completed(s1, "skipToPrevious", "ok")
    ELSE IF s.cur # Null
         THEN LET s1 == IF s.progressListeners # {}
                        THEN [s EXCEPT !.progressNotes = Append(@,
                                 [currentTime |-> 0,
                                  duration |-> IF s.cur.ready = "yes" THEN TrackLen ELSE 0,
                                  percentage |-> 0])]
                        ELSE s
              IN  IF s.isPlaying /\ s.cur.paused
                  THEN [s1 EXCEPT !.plays = @ + 1,
                          !.cur = Play([@ EXCEPT !.time = 0],
                                       <<"skipToPrevious.play", "skipToPrevious">>, allow)]
                  ELSE Completed([s1 EXCEPT !.cur.time = 0], "skipToPrevious", "ok")
         ELSE Completed(s, "skipToPrevious", "ok")

\* The number that is not a number: Math.min and Math.max return it when an
\* argument is it, a sum with it is it, and the currentTime setter of an
\* element throws a TypeError on it
NaN == -1000000

\* Math.max(0, Math.min(time, duration)) without its lower bound: a fault
\* C16 must tell from the code
ClampAbove(time, duration) ==
    IF time = NaN THEN NaN
    ELSE IF time < duration THEN time ELSE duration

\* Math.max(0, Math.min(time, duration)): index.ts:310 with the duration,
\* index.ts:362 with 100
Clamp(time, duration) ==
    IF time = NaN THEN NaN
    ELSE LET m == IF time < duration THEN time ELSE duration
         IN  IF m > 0 THEN m ELSE 0

\* The ProgressSnapshot of an element with a known duration
Progress(currentTime) ==
    [currentTime |-> currentTime, duration |-> TrackLen,
     percentage |-> (currentTime * 100) \div TrackLen]

\* seekTo without its check of the duration: a fault C17 must tell from the
\* code
seekToAnyDuration(s, time) ==
    IF s.cur = Null THEN Completed(s, "seekTo", "false")
    ELSE LET clampedTime == Clamp(time, TrackLen)
             s1 == [s EXCEPT !.cur.time = clampedTime]
             s2 == IF s1.progressListeners # {}
                   THEN [s1 EXCEPT !.progressNotes = Append(@, Progress(clampedTime))]
                   ELSE s1
         IN  IF clampedTime = NaN THEN Completed(s, "seekTo", "false")
             ELSE Completed(updateNextTrackSchedule(s2), "seekTo", "true")

\* seekTo(time). The duration of a loaded element is TrackLen, the duration of
\* any other element is NaN; the assignment of NaN to currentTime throws, and
\* the catch block returns false
seekTo(s, time) ==
    IF s.cur = Null THEN Completed(s, "seekTo", "false")
    ELSE IF s.cur.ready # "yes" THEN Completed(s, "seekTo", "false")
    ELSE LET clampedTime == Clamp(time, TrackLen)
             s1 == [s EXCEPT !.cur.time = clampedTime]
             s2 == IF s1.progressListeners # {}
                   THEN [s1 EXCEPT !.progressNotes = Append(@, Progress(clampedTime))]
                   ELSE s1
         IN  IF clampedTime = NaN THEN Completed(s, "seekTo", "false")
             ELSE Completed(updateNextTrackSchedule(s2), "seekTo", "true")

\* The value a call returned to its caller
Returned(s, call) == (CHOOSE r \in s.rets : r.call = call).res

\* seekToPercentage(percentage)
seekToPercentage(s, percentage) ==
    IF s.cur = Null THEN Completed(s, "seekToPercentage", "false")
    ELSE IF s.cur.ready # "yes" THEN Completed(s, "seekToPercentage", "false")
    ELSE LET clampedPercentage == Clamp(percentage, 100)
             targetTime == IF clampedPercentage = NaN THEN NaN
                           ELSE (clampedPercentage * TrackLen) \div 100
             s1 == seekTo(s, targetTime)
         IN  Completed(s1, "seekToPercentage", Returned(s1, "seekTo"))

\* seekRelative(seconds)
seekRelative(s, seconds) ==
    IF s.cur = Null THEN Completed(s, "seekRelative", "false")
    ELSE LET currentTime == s.cur.time
             targetTime == IF seconds = NaN THEN NaN ELSE currentTime + seconds
             s1 == seekTo(s, targetTime)
         IN  Completed(s1, "seekRelative", Returned(s1, "seekTo"))

\* The interval callback of startProgressUpdates (index.ts:867-889)
progressTick(s) ==
    IF s.cur # Null /\ s.progressListeners # {}
    THEN IF s.cur.ready = "yes"
         THEN [s EXCEPT !.progressNotes = Append(@, Progress(s.cur.time))]
         ELSE s
    ELSE stopProgressUpdates(s)

\* destroy() leaving the timer alone: a fault C21 must tell from the code
destroyProgressKeepTimer(s, listener) ==
    [s EXCEPT !.progressListeners = @ \ {listener}]

\* destroy() of the object onProgressChange(listener) returned
destroyProgress(s, listener) ==
    LET s1 == [s EXCEPT !.progressListeners = @ \ {listener}]
    IN  IF s1.progressListeners = {} THEN stopProgressUpdates(s1) ELSE s1

\* onProgressChange(listener)
onProgressChange(s, listener) ==
    LET s1 == [s EXCEPT !.progressListeners = @ \cup {listener},
                        !.handles = @ \cup {listener}]
    IN  IF Cardinality(s1.progressListeners) = 1 /\ s1.isPlaying /\ s1.cur # Null
        THEN startProgressUpdates(s1)
        ELSE s1

\* onShuffleChange(listener)
onShuffleChange(s, listener) ==
    LET s1 == [s EXCEPT !.shuffleListeners = @ \cup {listener}]
    IN  [s1 EXCEPT !.shuffleHeard =
             [l \in s1.shuffleListeners |->
                 IF l = listener THEN s1.shuffle ELSE s.shuffleHeard[l]]]

\* destroy() of the object onShuffleChange(listener) returned
destroyShuffle(s, listener) ==
    LET s1 == [s EXCEPT !.shuffleListeners = @ \ {listener}]
    IN  [s1 EXCEPT !.shuffleHeard = [l \in s1.shuffleListeners |-> s.shuffleHeard[l]]]

\* onLoopChange(listener)
onLoopChange(s, listener) ==
    LET s1 == [s EXCEPT !.loopListeners = @ \cup {listener}]
    IN  [s1 EXCEPT !.loopHeard =
             [l \in s1.loopListeners |->
                 IF l = listener THEN s1.loop ELSE s.loopHeard[l]]]

\* destroy() of the object onLoopChange(listener) returned
destroyLoop(s, listener) ==
    LET s1 == [s EXCEPT !.loopListeners = @ \ {listener}]
    IN  [s1 EXCEPT !.loopHeard = [l \in s1.loopListeners |-> s.loopHeard[l]]]

\* ------------------------------------------------------- continuations

\* A rejected startPlay as its caller sees it: togglePlaying catches and
\* logs it, the skips reject to their caller, nobody awaits playNext.
startPlayFailed(s, caller) ==
    Completed(s, caller,
              IF caller = "togglePlaying" THEN "ok"
              ELSE IF caller = "playNext" THEN "unhandled"
              ELSE "rejected")

\* The catch block of startPlay resetting the play state on every error: a
\* fault C8 must tell from the code
startPlayCaughtAny(s, name, caller) ==
    startPlayFailed(NotifyPlayState([s EXCEPT !.isPlaying = FALSE], FALSE), caller)

\* The catch block of startPlay (index.ts:597-615), the play() promise
\* rejected with the error named name: the play state is reset only when the
\* autoplay policy blocked the playback, and the error is thrown on
startPlayCaught(s, name, caller) ==
    IF name = "NotAllowedError"
    THEN startPlayFailed(NotifyPlayState([s EXCEPT !.isPlaying = FALSE], FALSE), caller)
    ELSE startPlayFailed(s, caller)

\* The code that follows an await on play(), the promise settled with
\* outcome ("ok" or the name of the error)
Continue(s, c, outcome, allow) ==
    CASE c.k = "startPlay.resume" ->
           IF outcome = "ok"
           THEN Completed(IF s.nxt = Null /\ s.cur # Null /\ InPreloadWindow(s.cur)
                          THEN scheduleNext(s) ELSE s,
                          c.caller, "ok")
           ELSE startPlayFailed(s, c.caller)
      [] c.k = "startPlay.play" ->
           IF outcome = "ok" THEN Completed(s, c.caller, "ok")
           ELSE startPlayCaught(s, outcome, c.caller)
      [] c.k = "playNext.guard" -> playNextPromote(s, outcome = "ok", allow)
      [] c.k = "playNext.play" -> playNextStarted(s, outcome = "ok", allow)
      [] c.k = "prime" ->
           IF outcome = "ok" /\ s.nxt # Null
           THEN [s EXCEPT !.nxt = [Pause(@) EXCEPT !.time = 0, !.volume = 1]]
           ELSE s
      [] c.k = "skipToPrevious.play" ->
           Completed(s, "skipToPrevious", IF outcome = "ok" THEN "ok" ELSE "rejected")
      [] c.k = "loop.play" ->
           IF outcome = "ok" THEN s ELSE Completed(s, "handleTrackEnd", "unhandled")

\* The priming of scheduleNext without muting the element first: a fault C26
\* must tell from the code
onCanPlayThroughLoud(s, allow) ==
    IF s.nxt # Null /\ s.nxt.paused
    THEN [s EXCEPT !.plays = @ + 1,
                 !.nxt = Play(@, <<"prime", "scheduleNext">>, allow)]
    ELSE s

\* The canplaythrough listener of scheduleNext, up to its await on play()
onCanPlayThrough(s, allow) ==
    IF s.nxt # Null /\ s.nxt.paused
    THEN [s EXCEPT !.plays = @ + 1,
                 !.nxt = Play([@ EXCEPT !.volume = 0], <<"prime", "scheduleNext">>, allow)]
    ELSE s

\* ------------------------------------------------------- state

VARIABLES
    queue,              \* this.queue: the urls of the queued tracks
    order,              \* this.order: queue indices (0-based) in play order
    ptr,                \* this.currentPlayingPointer: 0-based index into order
    isPlaying,          \* this.isPlaying
    shuffle,            \* this.shuffle
    loop,               \* this.loop
    cur,                \* this.currentAudio
    nxt,                \* this.nextAudio
    orphans,            \* elements the player dropped that are still live
    progressListeners,  \* this.progressListeners
    progressTimer,      \* this.progressTimer !== null
    shuffleListeners,   \* this.shuffleListeners
    loopListeners,      \* this.loopListeners
    op,                 \* history: the task that ran last
    ev,                 \* history: the promise that task settled, if any
    playNotes,          \* history: values that task gave the play-state listeners
    lastPlayNote,       \* history: last value given to the play-state listeners
    created,            \* history: audio elements that task created
    plays,              \* history: play() requests that task made
    rets,               \* history: calls that completed in that task
    snap,               \* history: queue index at the pointer before shuffle was switched
    calls,              \* history: calls the caller has made
    arg,                \* history: the number that call was made with (0: none)
    progressNotes,      \* history: the ProgressSnapshots that task handed to the listeners
    handles,            \* the listeners whose destroy() the caller holds
    callerArray,        \* this.queue is the array object a caller passed to
                        \* replaceQueue (index.ts:77): the caller holds it too
    skipping,           \* history: a skip made while playing moved the pointer, and
                        \* since then it has not completed, the caller made no
                        \* call and the backend refused no play()
    wrapping,           \* history: the last track ended under loop entire_queue and
                        \* since then playNext has not completed, the caller made
                        \* no call and the backend refused no play()
    shuffleHeard,       \* history: the last value each shuffle listener was given
    loopHeard           \* history: the last value each loop listener was given

vars == <<queue, order, ptr, isPlaying, shuffle, loop, cur, nxt, orphans,
          progressListeners, progressTimer, op, ev, playNotes, lastPlayNote,
          created, plays, rets, snap, calls, arg,
          progressNotes, handles, callerArray, skipping, wrapping,
          shuffleListeners, loopListeners, shuffleHeard, loopHeard>>

\* No promise settled in the task
NoEvent == [k |-> "-", caller |-> "-", outcome |-> "-"]

\* The state as a record, with the history of a task that starts: name is
\* the task, e the promise it settles
Begin(name, e) ==
    [queue |-> queue, order |-> order, ptr |-> ptr, isPlaying |-> isPlaying,
     shuffle |-> shuffle, loop |-> loop, cur |-> cur, nxt |-> nxt,
     orphans |-> orphans, progressListeners |-> progressListeners,
     progressTimer |-> progressTimer, op |-> name, ev |-> e,
     playNotes |-> <<>>, lastPlayNote |-> lastPlayNote, created |-> 0,
     plays |-> 0,
     rets |-> {}, snap |-> -2, calls |-> calls, arg |-> 0, progressNotes |-> <<>>,
     handles |-> handles, callerArray |-> callerArray, skipping |-> skipping, wrapping |-> wrapping,
     shuffleListeners |-> shuffleListeners, loopListeners |-> loopListeners,
     shuffleHeard |-> shuffleHeard, loopHeard |-> loopHeard]

\* The state as a call of the caller starts
Call(name) ==
    [Begin(name, NoEvent) EXCEPT !.calls = @ + 1, !.skipping = FALSE, !.wrapping = FALSE]

\* The task ends in the state t
Becomes(t) ==
    /\ Cardinality(t.orphans) <= MaxOrphans
    /\ \A e \in {t.cur, t.nxt} \cup t.orphans : e # Null => Cardinality(e.pend) <= MaxPending
    /\ queue' = t.queue /\ order' = t.order /\ ptr' = t.ptr
    /\ isPlaying' = t.isPlaying /\ shuffle' = t.shuffle /\ loop' = t.loop
    /\ cur' = t.cur /\ nxt' = t.nxt /\ orphans' = t.orphans
    /\ progressListeners' = t.progressListeners
    /\ progressTimer' = t.progressTimer
    /\ op' = t.op /\ ev' = t.ev /\ playNotes' = t.playNotes
    /\ lastPlayNote' = t.lastPlayNote /\ created' = t.created
    /\ plays' = t.plays
    /\ rets' = t.rets /\ snap' = t.snap /\ calls' = t.calls
    /\ arg' = t.arg /\ progressNotes' = t.progressNotes
    /\ handles' = t.handles /\ callerArray' = t.callerArray
    /\ shuffleListeners' = t.shuffleListeners /\ loopListeners' = t.loopListeners
    /\ shuffleHeard' = t.shuffleHeard /\ loopHeard' = t.loopHeard
    /\ skipping' = (/\ t.skipping /\ t.ev.outcome \in {"-", "ok"}
                    /\ \A r \in t.rets : r.call \notin {"skipToNext", "skipToPrevious"})
    /\ wrapping' = (/\ t.wrapping /\ t.ev.outcome \in {"-", "ok"}
                    /\ \A r \in t.rets : r.call # "playNext")

\* The constructor
Init ==
    /\ queue = <<>> /\ order = <<>> /\ ptr = 0
    /\ isPlaying = FALSE /\ shuffle = FALSE /\ loop = "off"
    /\ cur = Null /\ nxt = Null /\ orphans = {}
    /\ progressListeners = {} /\ progressTimer = FALSE
    /\ op = "constructor" /\ ev = NoEvent /\ playNotes = <<>>
    /\ lastPlayNote = "none" /\ created = 0 /\ rets = {} /\ snap = -2
    /\ plays = 0 /\ calls = 0 /\ arg = 0 /\ progressNotes = <<>>
    /\ handles = {} /\ callerArray = FALSE /\ skipping = FALSE /\ wrapping = FALSE
    /\ shuffleListeners = {} /\ loopListeners = {}
    /\ shuffleHeard = [l \in {} |-> FALSE] /\ loopHeard = [l \in {} |-> "off"]

\* ------------------------------------------------------- inputs

\* Queues a caller passes to replaceQueue: the first n tracks of an album,
\* track i having the url i
QueueInputs == {[i \in 1..n |-> i] : n \in 0..MaxQueue}

\* The track a caller appends to a queue of n tracks: the album's next one
AppendInput(n) == n + 1

Tristate == {"true", "false", "undefined"}

LoopInputs == {"off", "entire_queue", "single_track", "undefined"}

\* Times a caller seeks to
SeekInputs == {-5, 3, 40, 51, 9999, NaN}

\* Percentages a caller seeks to
PercentageInputs == {-5, 40, 9999, NaN}

\* Seconds a caller seeks by
RelativeInputs == {-3, 37, 9999, NaN}

\* Listeners a caller registers
Listeners == {1}

\* ------------------------------------------------------- scheduling

\* Where the backend's elements are: the current one, the preloaded one and
\* the dropped ones that are still live
Places ==
    {[slot |-> "cur", e |-> cur] : x \in IF cur # Null THEN {1} ELSE {}}
    \cup {[slot |-> "nxt", e |-> nxt] : x \in IF nxt # Null THEN {1} ELSE {}}
    \cup {[slot |-> "orphan", e |-> o] : o \in orphans}

\* The state s with the element at place p changed to e
Put(s, p, e) ==
    IF p.slot = "cur" THEN [s EXCEPT !.cur = e]
    ELSE IF p.slot = "nxt" THEN [s EXCEPT !.nxt = e]
    ELSE Drop([s EXCEPT !.orphans = @ \ {p.e}], e)

\* The promise c of the element e can settle: it was refused or aborted, or
\* the element has loaded or has failed to load
Settled(e, c) == c.err # "none" \/ e.ready # "no"

\* A settled promise is waiting for its continuation to run
Urgent == \E p \in Places : \E c \in p.e.pend : Settled(p.e, c)

\* The caller can make a call: no settled promise waits, and the run has
\* calls left
CanCall == ~Urgent /\ calls < MaxCalls

\* ------------------------------------------------------- caller actions

ReplaceQueue ==
    /\ CanCall
    /\ \E q \in QueueInputs : Becomes(replaceQueue(Call("replaceQueue"), q))

AppendTrack ==
    /\ CanCall
    /\ Len(queue) < MaxQueue
    /\ Becomes(appendTrack(Call("appendTrack"), AppendInput(Len(queue))))

TogglePlaying ==
    /\ CanCall
    /\ \E p \in Tristate, allow \in BOOLEAN :
        Becomes(togglePlaying(Call("togglePlaying(" \o p \o ")"), p, allow))

\* The draws are those of the entries shuffleQueue shuffles, when the
\* call enables shuffle
ToggleShuffle ==
    /\ CanCall
    /\ \E v \in Tristate :
        LET s == Call("toggleShuffle")
            enables == ~s.shuffle /\ v # "false"
            shuffled == IF enables /\ StartShuffleFrom(s) < QLen(s)
                        THEN QLen(s) - StartShuffleFrom(s) ELSE 0
        IN  \E rnd \in RandomDraws(shuffled) :
                LET t == toggleShuffle(s, v, rnd)
                IN  Becomes([t EXCEPT !.snap = IF t.shuffle # s.shuffle THEN OrderAt(s, s.ptr) ELSE -2])

ToggleLoop ==
    /\ CanCall
    /\ \E m \in LoopInputs : Becomes(toggleLoop(Call("toggleLoop"), m))

SkipToNext ==
    /\ CanCall
    /\ \E allow \in BOOLEAN :
           LET t == skipToNext(Call("skipToNext"), allow)
           IN  Becomes([t EXCEPT !.skipping = isPlaying /\ t.ptr # ptr])

SkipToPrevious ==
    /\ CanCall
    /\ \E allow \in BOOLEAN :
           LET t == skipToPrevious(Call("skipToPrevious"), allow)
           IN  Becomes([t EXCEPT !.skipping = isPlaying /\ t.ptr # ptr])

SeekTo ==
    /\ CanCall
    /\ \E t \in SeekInputs : Becomes(seekTo([Call("seekTo") EXCEPT !.arg = t], t))

SeekToPercentage ==
    /\ CanCall
    /\ \E pct \in PercentageInputs :
           Becomes(seekToPercentage([Call("seekToPercentage") EXCEPT !.arg = pct], pct))

SeekRelative ==
    /\ CanCall
    /\ \E seconds \in RelativeInputs :
           Becomes(seekRelative([Call("seekRelative") EXCEPT !.arg = seconds], seconds))

\* A caller subscribes a listener that is not subscribed yet
OnProgressChange ==
    /\ CanCall
    /\ \E l \in Listeners \ progressListeners :
           Becomes(onProgressChange(Call("onProgressChange"), l))

\* ------------------------------------------------------- backend actions

\* A play() promise settles and the code awaiting it goes on, before any
\* other task: it rejects with the error it was refused or aborted with,
\* resolves when the element has loaded, and rejects with NotSupportedError
\* when the source cannot be played
PlaySettles ==
    \E p \in Places : \E c \in p.e.pend : \E allow \in BOOLEAN :
        /\ Settled(p.e, c)
        /\ LET outcome == IF c.err # "none" THEN c.err
                          ELSE IF p.e.ready = "yes" THEN "ok"
                          ELSE "NotSupportedError"
               s == Begin("settle", [k |-> c.k, caller |-> c.caller, outcome |-> outcome])
           IN  Becomes(Continue(Put(s, p, [p.e EXCEPT !.pend = @ \ {c}]), c, outcome, allow))

\* The current element plays on to the time t and fires timeupdate
TimeUpdate ==
    /\ ~Urgent
    /\ cur # Null /\ ~cur.paused /\ cur.ready = "yes"
    /\ \E t \in TimePoints \ {TrackLen} :
        /\ t > cur.time
        /\ Becomes(onTimeUpdate([Begin("timeupdate", NoEvent) EXCEPT !.cur.time = t]))

\* A dropped element that still plays fires timeupdate on its listener
OrphanTimeUpdate ==
    \E o \in orphans :
        /\ ~Urgent
        /\ ~o.paused /\ o.ready = "yes" /\ o.lis
        /\ Becomes(onTimeUpdate(Begin("timeupdate(orphan)", NoEvent)))

\* An element plays to its end: the backend pauses it and fires timeupdate
\* and ended on the listeners it has
TrackEnds ==
    \E p \in Places : \E allow \in BOOLEAN :
        /\ ~Urgent
        /\ p.slot # "nxt"
        /\ ~p.e.paused /\ p.e.ready = "yes"
        /\ LET e1 == [Pause(p.e) EXCEPT !.time = TrackLen]
               s == Put(Begin(IF p.slot = "cur" THEN "ended" ELSE "ended(orphan)", NoEvent), p, e1)
               atEnd == /\ p.slot = "cur" /\ p.e.lis /\ isPlaying /\ loop = "entire_queue"
                        /\ Len(order) > 0 /\ ptr = Len(order) - 1
               s1 == [s EXCEPT !.wrapping = @ \/ atEnd]
           IN  Becomes(IF p.e.lis THEN handleTrackEnd(onTimeUpdate(s1), allow) ELSE s1)

\* An element has loaded: its duration is known, its pending play() promises
\* resolve and, where the once-only listener of scheduleNext is armed,
\* canplaythrough fires
CanPlayThrough ==
    \E p \in Places : \E allow \in BOOLEAN :
        /\ ~Urgent
        /\ p.e.ready = "no"
        /\ LET e1 == [p.e EXCEPT !.ready = "yes", !.cpt = FALSE]
               s == Put(Begin("canplaythrough", NoEvent), p, e1)
           IN  Becomes(IF p.e.cpt THEN onCanPlayThrough(s, allow) ELSE s)

\* An element fails to load: its source cannot be played
LoadFails ==
    \E p \in Places :
        /\ ~Urgent
        /\ p.e.ready = "no"
        /\ Becomes(Put(Begin("error", NoEvent), p, [p.e EXCEPT !.ready = "bad", !.cpt = FALSE]))

\* ------------------------------------------------------- specification

\* A settled promise's continuation runs before any other task
Next ==
    \/ ReplaceQueue
    \/ AppendTrack
    \/ TogglePlaying
    \/ ToggleShuffle
    \/ ToggleLoop
    \/ SkipToNext
    \/ SkipToPrevious
    \/ SeekTo
    \/ PlaySettles
    \/ TimeUpdate
    \/ OrphanTimeUpdate
    \/ TrackEnds
    \/ CanPlayThrough
    \/ LoadFails

Spec == Init /\ [][Next]_vars

\* ------------------------------------------------------- seeking

\* The player with a caller that sets up a queue and a loop mode, plays and
\* pauses, subscribes to the progress and seeks in the three ways
NextSeek ==
    \/ ReplaceQueue
    \/ TogglePlaying
    \/ ToggleLoop
    \/ SeekTo
    \/ SeekToPercentage
    \/ SeekRelative
    \/ OnProgressChange
    \/ PlaySettles
    \/ TimeUpdate
    \/ OrphanTimeUpdate
    \/ TrackEnds
    \/ CanPlayThrough
    \/ LoadFails

SpecSeek == Init /\ [][NextSeek]_vars

\* ------------------------------------------------------- progress subscribers

\* A caller calls destroy() of a subscription, once or once more
DestroyProgress ==
    /\ CanCall
    /\ \E l \in handles :
           Becomes(destroyProgress(
               Call(IF l \in progressListeners THEN "destroy" ELSE "destroy again"), l))

\* The interval of the progress timer elapses
ProgressTick ==
    /\ ~Urgent
    /\ progressTimer
    /\ Becomes(progressTick(Begin("tick", NoEvent)))

NextProgress ==
    \/ ReplaceQueue
    \/ TogglePlaying
    \/ SkipToNext
    \/ SkipToPrevious
    \/ OnProgressChange
    \/ DestroyProgress
    \/ ProgressTick
    \/ PlaySettles
    \/ TimeUpdate
    \/ OrphanTimeUpdate
    \/ TrackEnds
    \/ CanPlayThrough
    \/ LoadFails

\* The player with callers that subscribe to the progress and unsubscribe,
\* and use the queue and the transport of the player
SpecProgress == Init /\ [][NextProgress]_vars

\* ------------------------------------------------------- mode subscribers

\* A caller subscribes a listener to the shuffle state
OnShuffleChange ==
    /\ CanCall
    /\ \E l \in Listeners \ shuffleListeners :
           Becomes(onShuffleChange(Call("onShuffleChange"), l))

\* A caller calls destroy() of a shuffle subscription
DestroyShuffle ==
    /\ CanCall
    /\ \E l \in shuffleListeners :
           Becomes(destroyShuffle(Call("destroy shuffle"), l))

\* A caller subscribes a listener to the loop mode
OnLoopChange ==
    /\ CanCall
    /\ \E l \in Listeners \ loopListeners :
           Becomes(onLoopChange(Call("onLoopChange"), l))

\* A caller calls destroy() of a loop subscription
DestroyLoop ==
    /\ CanCall
    /\ \E l \in loopListeners :
           Becomes(destroyLoop(Call("destroy loop"), l))

\* The player with callers that subscribe to the shuffle state and the loop
\* mode
NextModes ==
    \/ ReplaceQueue
    \/ AppendTrack
    \/ TogglePlaying
    \/ ToggleShuffle
    \/ ToggleLoop
    \/ SkipToNext
    \/ OnShuffleChange
    \/ DestroyShuffle
    \/ OnLoopChange
    \/ DestroyLoop
    \/ PlaySettles

SpecModes == Init /\ [][NextModes]_vars

\* ------------------------------------------------------- looping

\* In the step that led here the backend refused a play() or failed to load
\* an element, or a promise rejected for it
Refused ==
    \/ op = "error"
    \/ ev.outcome \in {"NotAllowedError", "NotSupportedError"}
    \/ \E p \in Places : \E c \in p.e.pend : c.err = "NotAllowedError"

\* The steps of a backend that accepts every play() and loads every element
AcceptedTogglePlaying == TogglePlaying /\ ~Refused'

AcceptedPlaySettles == PlaySettles /\ ~Refused'

AcceptedTrackEnds == TrackEnds /\ ~Refused'

AcceptedCanPlayThrough == CanPlayThrough /\ ~Refused'

NextLoop ==
    \/ ReplaceQueue
    \/ ToggleLoop
    \/ AcceptedTogglePlaying
    \/ AcceptedPlaySettles
    \/ TimeUpdate
    \/ OrphanTimeUpdate
    \/ AcceptedTrackEnds
    \/ AcceptedCanPlayThrough

\* The states in which AcceptedTrackEnds, AcceptedCanPlayThrough and
\* AcceptedPlaySettles can take a step
CanEnd ==
    /\ ~Urgent
    /\ \E p \in Places : p.slot # "nxt" /\ ~p.e.paused /\ p.e.ready = "yes"

CanLoad == ~Urgent /\ \E p \in Places : p.e.ready = "no"

\* The player with a caller that sets up a queue, a loop mode and the play
\* state, and a backend that accepts every play(), in which an element that
\* plays reaches its end, an element that loads becomes ready, and a settled
\* promise runs its continuation: weak fairness of the three steps, each
\* WF_vars(A) written out as []<>(~ENABLED <<A>>_vars) \/ []<><<A>>_vars
\* with the enabling condition of A as a state predicate
SpecLoop ==
    /\ Init /\ [][NextLoop]_vars
    /\ []<>(~CanEnd) \/ []<><<AcceptedTrackEnds>>_vars
    /\ []<>(~CanLoad) \/ []<><<AcceptedCanPlayThrough>>_vars
    /\ []<>(~Urgent) \/ []<><<AcceptedPlaySettles>>_vars

\* ------------------------------------------------------- the caller's array

\* The caller of replaceQueue pushes a track to, or pops a track from, the
\* array they passed: it is the array this.queue refers to (index.ts:77), so
\* the queue changes, and no code of the player runs
CallerMutatesArray ==
    /\ CanCall
    /\ callerArray
    /\ \E q \in {Append(queue, AppendInput(Len(queue))),
                  SubSeq(queue, 1, Len(queue) - 1)} :
           /\ q # queue /\ Len(q) <= MaxQueue
           /\ Becomes([Call("caller: mutate array") EXCEPT !.queue = q])

NextAliasing ==
    \/ ReplaceQueue
    \/ AppendTrack
    \/ TogglePlaying
    \/ ToggleShuffle
    \/ SkipToNext
    \/ SkipToPrevious
    \/ PlaySettles
    \/ TimeUpdate
    \/ OrphanTimeUpdate
    \/ TrackEnds
    \/ CanPlayThrough
    \/ LoadFails
    \/ CallerMutatesArray

\* The player with a caller that keeps and changes the array they passed and
\* uses the queue and the transport of the player
SpecAliasing == Init /\ [][NextAliasing]_vars

\* ------------------------------------------------------- properties

\* The fields of the player, without the history
player == <<queue, order, ptr, isPlaying, shuffle, loop, cur, nxt, orphans,
            progressListeners, progressTimer, shuffleListeners, loopListeners>>

\* The values of the sequence a
Range(a) == {a[i] : i \in 1..Len(a)}

\* The sequences a and b hold the same entries, each as often
SameEntries(a, b) ==
    /\ Len(a) = Len(b)
    /\ \A v \in Range(a) \cup Range(b) :
        Cardinality({i \in 1..Len(a) : a[i] = v}) = Cardinality({i \in 1..Len(b) : b[i] = v})

\* C1: in every reachable state the order is a permutation of the queue
\* indices 0..len(queue)-1 and is as long as the queue.
C1_OrderIsPermutation == SameEntries(order, Identity(Len(queue)))

\* A shuffled order of three tracks, a track appended while shuffle was on
C1_Witness ==
    /\ op = "appendTrack" /\ shuffle
    /\ Len(queue) = 3 /\ order = <<1, 0, 2>>

\* C2: in every reachable state with a non-empty queue, the states at the
\* suspension points of the player's operations included, the pointer is an
\* index of the order.
C2_PositionInRange == Len(queue) > 0 => 0 <= ptr /\ ptr < Len(order)

\* C3: after replaceQueue, from any state, the order is the identity, the
\* pointer is 0, shuffle is off and loop is off.
C3_ReplaceQueueResets ==
    [][op' = "replaceQueue" =>
          /\ order' = Identity(Len(queue'))
          /\ ptr' = 0
          /\ ~shuffle'
          /\ loop' = "off"]_vars

\* C4: after replaceQueue there is no current element, and the element that
\* was current before the call is not playing any more.
C4_ReplaceQueueDestroysCurrent ==
    [][op' = "replaceQueue" /\ cur # Null =>
          /\ cur' = Null
          /\ \A o \in orphans' : o = [cur EXCEPT !.url = 0, !.time = 0] => o.paused]_vars

\* C5: togglePlaying(true) called while isPlaying is already true, also
\* while the play() of an earlier call is pending, changes nothing: no field
\* of the player changes, no element is created, no play() is requested and
\* no play-state listener is called.
C5_TogglePlayingIdempotent ==
    [][op' = "togglePlaying(true)" /\ isPlaying =>
          /\ UNCHANGED player
          /\ created' = 0
          /\ plays' = 0
          /\ playNotes' = <<>>]_vars

\* togglePlaying(true) has returned while isPlaying was true and the play()
\* of the earlier call is still pending
C5_Witness ==
    /\ op = "togglePlaying(true)" /\ isPlaying /\ playNotes = <<>>
    /\ cur # Null /\ \E c \in cur.pend : c.caller = "togglePlaying" /\ c.err = "none"

\* C6: when the play() requested by togglePlaying(true) is rejected by the
\* autoplay policy, isPlaying is false again and the play-state listeners
\* were called with false, so that the last value they got is isPlaying.
C6_BlockedPlayReverts ==
    [][op' = "settle" /\ ev'.caller = "togglePlaying" /\ ev'.outcome = "NotAllowedError" =>
          /\ ~isPlaying'
          /\ FALSE \in Range(playNotes')
          /\ lastPlayNote' = "false"]_vars

\* C7: when the play() requested by togglePlaying(true) is rejected, blocked
\* or unsupported, the call of togglePlaying completes with the failure.
C7_FailureSurfaced ==
    [][/\ op' = "settle" /\ ev'.caller = "togglePlaying"
       /\ ev'.outcome \in {"NotAllowedError", "NotSupportedError"}
       => [call |-> "togglePlaying", res |-> "rejected"] \in rets']_vars

\* C8: when a play() is rejected as unsupported, the play intent stays:
\* isPlaying keeps the value true and no play-state listener is called with
\* false.
C8_UnsupportedKeepsIntent ==
    [][op' = "settle" /\ ev'.outcome = "NotSupportedError" =>
          /\ isPlaying => isPlaying'
          /\ FALSE \notin Range(playNotes')]_vars

\* The play() of togglePlaying(true) was rejected as unsupported and
\* isPlaying is still true
C8_Witness ==
    /\ op = "settle" /\ ev.caller = "togglePlaying" /\ ev.k = "startPlay.play"
    /\ ev.outcome = "NotSupportedError" /\ isPlaying

\* The entries of the sequence a from the 0-based index from on
From(a, from) == [i \in 1..(IF from < Len(a) THEN Len(a) - from ELSE 0) |-> a[from + i]]

\* C9: enabling shuffle, with from = pointer + 1 when playback is active
\* (isPlaying, or the pointer above 0, or the current progress above 0) and
\* from = 0 otherwise, leaves order[0..from) as it was and makes order[from..]
\* a permutation of what it held.
C9_ShuffleKeepsPlayed ==
    [][op' = "toggleShuffle" /\ ~shuffle /\ shuffle' =>
          LET active == isPlaying \/ ptr > 0 \/ (cur # Null /\ cur.time > 0)
              from == IF active THEN ptr + 1 ELSE 0
          IN  /\ Len(order') = Len(order)
              /\ \A i \in 1..Len(order) : i <= from => order'[i] = order[i]
              /\ SameEntries(From(order', from), From(order, from))]_vars

\* Shuffle was enabled while the first of three tracks played, and the two
\* tracks behind it changed places
C9_Witness ==
    /\ op = "toggleShuffle" /\ shuffle /\ isPlaying
    /\ ptr = 0 /\ order = <<0, 2, 1>>

\* C10: enabling shuffle and then disabling it, nothing in between, makes
\* the order the identity again and leaves the pointer at the queue item it
\* was at before shuffle was enabled.
C10_ShuffleRoundTrip ==
    [][op = "toggleShuffle" /\ snap # -2 /\ op' = "toggleShuffle" /\ shuffle /\ ~shuffle' =>
          /\ order' = Identity(Len(queue'))
          /\ (IF ptr' \in 0..(Len(order') - 1) THEN order'[ptr' + 1] ELSE -1) = snap]_vars

\* Playback is active as the shuffle rules say it: isPlaying, or the pointer
\* above 0, or the current progress above 0
Active == isPlaying \/ ptr > 0 \/ (cur # Null /\ cur.time > 0)

\* C11: disabling shuffle makes the order the identity; when playback is
\* active the pointer moves to where order[pointer] is the queue index it
\* was before the call, and when playback is not active the pointer stays.
C11_DisableShuffleRelocates ==
    [][/\ op' = "toggleShuffle" /\ shuffle /\ ~shuffle'
       /\ ptr \in 0..(Len(order) - 1)
       => /\ order' = Identity(Len(queue'))
          /\ Active => ptr' \in 0..(Len(order') - 1) /\ order'[ptr' + 1] = order[ptr + 1]
          /\ ~Active => ptr' = ptr]_vars

\* C12: appendTrack, shuffle on or off, puts the item at the end of the
\* queue, adds one entry at the end of the order, the queue index of the new
\* item (the old length of the queue), and leaves the earlier entries of the
\* order and the pointer as they were.
C12_AppendIsLast ==
    [][op' = "appendTrack" =>
          /\ queue' = Append(queue, AppendInput(Len(queue)))
          /\ order' = Append(order, Len(queue))
          /\ ptr' = ptr]_vars

\* A track was appended behind a shuffled order that does not start with
\* the first track
C12_Witness ==
    /\ op = "appendTrack" /\ shuffle /\ Len(order) >= 3
    /\ order[1] # 0 /\ order[Len(order)] = Len(queue) - 1

\* C13: under loop entire_queue, the track at the last entry of the order
\* ending while the player plays leads playNext to complete with the pointer
\* at 0, the player still playing and the element of the item at order[0]
\* playing, whether the wrap went through a preloaded element or not
\* (checked at the completion of the playNext the end of the track started,
\* the caller making no call in between and the backend accepting every
\* play() of the wrap)
C13_WrapAround ==
    [][wrapping /\ ev'.outcome = "ok" /\ (\E r \in rets' : r.call = "playNext" /\ r.res = "ok")
       => /\ ptr' = 0 /\ isPlaying'
          /\ cur' # Null /\ ~cur'.paused
          /\ cur'.url = queue'[order'[1] + 1]]_vars

\* C14: under loop single_track, the current track ending leaves the pointer
\* and the play state unchanged and keeps the current element, which is
\* sought to 0 and asked to play again (and plays unless the backend refuses)
C14_SingleTrackRepeats ==
    [][op' = "ended" /\ loop = "single_track" /\ cur.lis
       => /\ ptr' = ptr /\ isPlaying' = isPlaying
          /\ cur' # Null
          /\ \A f \in {"url", "volume", "ready", "lis", "cpt"} : cur'[f] = cur[f]
          /\ cur'.time = 0
          /\ \E c \in cur'.pend : /\ c.k = "loop.play"
                                  /\ c.err = "none" => ~cur'.paused]_vars

C14_Witness ==
    /\ op = "ended" /\ loop = "single_track" /\ isPlaying /\ ptr > 0
    /\ cur # Null /\ cur.lis /\ cur.time = 0 /\ ~cur.paused
    /\ \E c \in cur.pend : c.k = "loop.play" /\ c.err = "none"

Seeks == {"seekTo", "seekToPercentage", "seekRelative"}

\* The current element has a known positive duration
KnownDuration == cur # Null /\ cur.ready = "yes"

\* The value the call of that task returned
Result == {r.res : r \in {x \in rets : x.call = op}}

C17_RejectedSeekIsNoOp ==
    [][op' \in Seeks /\ ~KnownDuration
       => /\ Result' = {"false"}
          /\ player' = player
          /\ progressNotes' = <<>>]_vars

C17_Witness ==
    /\ op = "seekRelative" /\ arg = 37 /\ Result = {"false"}
    /\ cur # Null /\ cur.ready = "no" /\ ~cur.paused
    /\ progressListeners # {} /\ progressNotes = <<>>

\* Seconds the current track has played
CurrentProgress == IF cur # Null THEN cur.time ELSE 0

\* C18: skipToPrevious restarts the current track from 0 with the pointer
\* unchanged when the track has played 5 seconds or more or the pointer is 0;
\* otherwise (less than 5 seconds and pointer above 0) it moves the pointer
\* to the entry before, with the element switchToTrack creates for its item
C18_SkipToPrevious ==
    [][op' = "skipToPrevious"
       => /\ CurrentProgress >= RestartThreshold \/ ptr = 0
             => /\ ptr' = ptr
                /\ cur # Null => /\ cur' # Null /\ cur'.time = 0 /\ cur'.url = cur.url
                                 /\ created' = 0
          /\ CurrentProgress < RestartThreshold /\ ptr > 0
             => /\ ptr' = ptr - 1
                /\ created' = 1
                /\ cur' # Null /\ cur'.time = 0
                /\ cur'.url = queue'[order'[ptr' + 1] + 1]]_vars

\* The current element is an element of the item at the pointer
CurrentAtPointer ==
    /\ cur # Null /\ ptr \in 0..(Len(order) - 1)
    /\ cur.url = queue[order[ptr + 1] + 1]

\* C19: a skipToNext or skipToPrevious that moves the pointer keeps the play
\* state it was called in, the backend accepting play(): called while
\* playing, the element of the new pointer plays when the call completes (the
\* caller making no call in between); called while not playing, the call
\* completes at once with the element of the new pointer created and paused
C19_SkipKeepsPlayState ==
    [][/\ skipping /\ ev'.outcome = "ok"
          /\ (\E r \in rets' : r.call \in {"skipToNext", "skipToPrevious"} /\ r.res = "ok")
          => isPlaying' /\ CurrentAtPointer' /\ ~cur'.paused
       /\ op' \in {"skipToNext", "skipToPrevious"} /\ ~isPlaying /\ ptr' # ptr
          => /\ ~isPlaying' /\ Result' = {"ok"}
             /\ CurrentAtPointer' /\ cur'.paused /\ created' = 1]_vars

\* What fetchQueue would return now
FetchQueueResult == orderedQueue(Begin("fetchQueue", NoEvent))

\* C20: the player shares no state with its callers: the caller changing the
\* array they passed to replaceQueue never changes what fetchQueue returns
C20_NoSharedState ==
    [][op' = "caller: mutate array" => FetchQueueResult' = FetchQueueResult]_vars

\* C21: a running progress timer has a subscriber, in every state; and
\* stopping is idempotent: destroy() of a subscription that is already
\* destroyed changes nothing of the player and leaves the timer stopped
C21_TimerHasSubscriber ==
    /\ [](progressTimer => progressListeners # {})
    /\ [][op' = "destroy again" => player' = player /\ ~progressTimer']_vars

C21_Witness ==
    /\ op = "destroy again" /\ isPlaying /\ cur # Null /\ ~cur.paused
    /\ progressListeners = {} /\ ~progressTimer

\* C22: while the player plays, a progress listener is subscribed and a
\* current element exists, the progress timer runs
C22_TimerRunsWhilePlaying ==
    isPlaying /\ progressListeners # {} /\ cur # Null => progressTimer

\* C23: a running progress timer means the player plays, in every state
C23_TimerOnlyWhilePlaying ==
    progressTimer => isPlaying

\* The step that led here was a call of the caller
Called ==
    op \notin {"constructor", "settle", "timeupdate", "timeupdate(orphan)", "ended",
               "ended(orphan)", "canplaythrough", "error"}

\* The queue loops and plays
Looping == loop = "entire_queue" /\ Len(queue) > 0 /\ isPlaying

\* C24, first half: while the queue loops and plays, no step of a backend
\* that accepts what it is asked stops the playback
C24_NeverStopsAlone ==
    [][Looping /\ ~Called' => isPlaying']_vars

\* The current element plays and no play() awaits its outcome
Sounding == cur # Null /\ ~cur.paused /\ \A p \in Places : p.e.pend = {}

\* C24, second half: with a backend that accepts every play(), from a state
\* in which the queue loops, the current element plays and no request is under
\* way, either the caller
\* calls again or every position of the order is the current one again and
\* again
C24_EveryPositionRecurs ==
    \A n \in 0..MaxCalls : \A p \in 0..(MaxQueue - 1) :
        [](Looping /\ Sounding /\ calls = n /\ p < Len(queue)
               => <>(calls # n) \/ []<>(ptr = p))

Successor ==
    IF ptr + 1 < Len(queue) THEN ptr + 1
    ELSE IF loop = "entire_queue" /\ Len(queue) > 0 THEN 0
    ELSE -1

\* C25: in every reachable state the preloaded next element, if there is one,
\* is an element for the track at the successor of the pointer in the current
\* order of the current queue under the current loop mode
C25_NextIsSuccessor ==
    nxt # Null =>
        /\ Successor \in 0..(Len(order) - 1)
        /\ order[Successor + 1] \in 0..(Len(queue) - 1)
        /\ nxt.url = queue[order[Successor + 1] + 1]

\* The elements that were preloaded and never promoted: the next element and
\* the dropped elements that never got the listeners of a current element
NeverPromoted ==
    {p.e : p \in {x \in Places : x.slot = "nxt" \/ (x.slot = "orphan" /\ ~x.e.lis)}}

\* C26: in every reachable state no element that was preloaded and not (yet)
\* promoted plays at a volume above zero
C26_NextIsSilent == \A e \in NeverPromoted : e.paused \/ e.volume = 0

\* A seek out of the preload window dropped the next element while a muted
\* play() of it was under way: the dropped element plays on, muted
C26_Witness ==
    /\ op = "seekTo"
    /\ nxt = Null
    /\ \E o \in orphans : ~o.lis /\ ~o.paused /\ o.volume = 0

\* The promise that continues next belongs to an element that a later call
\* took out of the roles of current and next element
Superseded ==
    /\ \E o \in orphans : \E c \in o.pend : Settled(o, c)
    /\ \A p \in Places : p.slot # "orphan" => \A c \in p.e.pend : ~Settled(p.e, c)

\* C27: the completion of a play request or promotion whose element a later
\* skipToNext, skipToPrevious or replaceQueue replaced changes neither the
\* pointer nor the current or the next element
C27_SupersededIsIgnored ==
    [][Superseded /\ op' = "settle" => ptr' = ptr /\ cur' = cur /\ nxt' = nxt]_vars

\* C28: an ended or timeupdate event of an element that is no longer the
\* current one changes neither the pointer, nor the play state, nor the
\* current or the next element
C28_OldElementIsDetached ==
    [][op' \in {"ended(orphan)", "timeupdate(orphan)"}
       => ptr' = ptr /\ isPlaying' = isPlaying /\ cur' = cur /\ nxt' = nxt]_vars

\* C29: when an ended event runs handleTrackEnd with no next element, loop
\* mode other than single_track and a position after the pointer, the step
\* moves the pointer to that position, creates an element for the track
\* there, makes it the current element and calls play() on it
C29_ColdStartPlaysSuccessor ==
    [][/\ op' \in {"ended", "ended(orphan)"}
       /\ loop # "single_track" /\ ptr + 1 < Len(queue)
       /\ nxt = Null /\ nxt' = Null /\ plays' > 0
       => /\ ptr' = ptr + 1
          /\ created' = 1
          /\ cur' # Null /\ cur' # cur
          /\ cur'.url = queue[order'[ptr' + 1] + 1]
          /\ \E c \in cur'.pend : c.caller = "playNext"]_vars

\* C30: a timeupdate event of the current element, with no next element, a
\* successor of the pointer and loop mode other than single_track, preloads a
\* next element if and only if less than 20 s of the track remain or more
\* than half of it has played: of a track of 100 s, not at 40 s and at 51 s
C30_PreloadTrigger ==
    [][op' = "timeupdate" /\ nxt = Null /\ Successor # -1 /\ loop # "single_track"
       => (nxt' # Null <=> (TrackLen - cur'.time < 20 \/ 2 * cur'.time > TrackLen))]_vars

\* The timeupdate at 51 s of a track of 100 s preloaded the next element
C30_Witness ==
    /\ op = "timeupdate" /\ cur.time = 51 /\ loop # "single_track"
    /\ nxt # Null /\ nxt.ready = "no" /\ nxt.pend = {} /\ created = 1

\* The step that led here called scheduleNext, or would have but for a next
\* element: a timeupdate of the current element, or a seekTo, with the time
\* of the current element inside the preload window
Scheduling ==
    /\ op \in {"timeupdate", "seekTo"}
    /\ cur # Null /\ InPreloadWindow(cur)

\* C31: where the next track would be scheduled, nothing is: the next
\* element is left as it was and no element is created, when a next element
\* exists, when the loop mode is single_track, or when the pointer is at the
\* last position and the loop mode is off
C31_SchedulingIsNoOp ==
    [][/\ Scheduling'
       /\ \/ nxt # Null
          \/ loop = "single_track"
          \/ ptr = Len(queue) - 1 /\ loop = "off"
       => nxt' = nxt /\ created' = 0]_vars

\* A timeupdate past the half of a track that repeats preloaded nothing
C31_Witness ==
    /\ op = "timeupdate" /\ cur # Null /\ cur.time = 51
    /\ loop = "single_track" /\ Len(queue) > 1 /\ ptr = 0
    /\ nxt = Null /\ created = 0

\* The time of the current element is inside the preload window of a track
\* of TrackLen seconds: less than 20 s remain or more than half has played
InWindow == TrackLen - cur.time < 20 \/ 2 * cur.time > TrackLen

\* C32: after a seek that returned true, no next element exists when the new
\* time is outside the preload window, a next element exists when it is
\* inside, the pointer has a successor and the loop mode is not single_track,
\* and each progress subscriber was handed exactly one ProgressSnapshot
C32_SeekUpdatesPreload ==
    [][op' \in Seeks /\ Result' = {"true"}
       => /\ cur' # Null
          /\ ~InWindow' => nxt' = Null
          /\ InWindow' /\ Successor' # -1 /\ loop' # "single_track" => nxt' # Null
          /\ Len(progressNotes') = (IF progressListeners' # {} THEN 1 ELSE 0)]_vars

\* A seek back to 3 s dropped the element that was preloaded, and the
\* subscriber got its snapshot
C32_Witness ==
    /\ op = "seekTo" /\ arg = 3 /\ Result = {"true"}
    /\ cur # Null /\ cur.time = 3 /\ nxt = Null
    /\ \E o \in orphans : ~o.lis
    /\ progressListeners # {} /\ Len(progressNotes) = 1

\* C33: when the backend rejects a play() that the player asked for on its
\* own, in a promotion or a start after a track end, in the replay of a
\* single track or in the priming of a preloaded element, no promise is left
\* rejected without a handler
C33_InternalFailureIsCaught ==
    /\ op = "settle"
    /\ ev.caller \in {"playNext", "handleTrackEnd", "scheduleNext"}
    /\ ev.outcome \in {"NotAllowedError", "NotSupportedError"}
    => \A r \in rets : r.res # "unhandled"

\* C34: togglePlaying(false), or togglePlaying() with no argument, called
\* while isPlaying is true sets isPlaying to false, pauses the current
\* element and the next element if there is one, stops the progress timer and
\* leaves the queue, the order, the pointer, shuffle and the loop mode as
\* they were
C34_PauseFrame ==
    [][op' \in {"togglePlaying(false)", "togglePlaying(undefined)"} /\ isPlaying
       => /\ ~isPlaying'
          /\ cur' # Null => cur'.paused
          /\ nxt' # Null => nxt'.paused
          /\ ~progressTimer'
          /\ queue' = queue /\ order' = order /\ ptr' = ptr
          /\ shuffle' = shuffle /\ loop' = loop]_vars

\* No operation of the player is under way: no play() awaits its outcome
Quiescent == \A p \in Places : p.e.pend = {}

\* C35: in every reachable state with a current element and no operation
\* under way, the current element is an element of the track at the pointer
\* in the order
C35_CurrentIsAtPointer == cur # Null /\ Quiescent => CurrentAtPointer

\* C36: in every reachable state with no operation under way and isPlaying
\* false, no element the player created plays; so too once the play() of a
\* withdrawn togglePlaying(true), skip or promotion has settled
C36_PausedMeansSilent ==
    Quiescent /\ ~isPlaying => \A p \in Places : p.e.paused

\* C37: in every reachable state at most one element the player created
\* produces sound
C37_OneAudible == Cardinality({p \in Places : Audible(p.e)}) <= 1

\* C38: in every reachable state with shuffle off the order is the identity
\* over the indices of the queue
C38_UnshuffledIsIdentity == ~shuffle => order = Identity(Len(queue))

\* toggleShuffle turned shuffle off on a queue of three tracks that had
\* played on to a later position
C38_Witness ==
    /\ op = "toggleShuffle" /\ ~shuffle /\ snap >= 0
    /\ Len(queue) = 3 /\ order = <<0, 1, 2>> /\ ptr > 0

\* C39: in every reachable state the last value given to each subscriber of
\* the shuffle state is the current shuffle state, and the last value given
\* to each subscriber of the loop mode is the current loop mode
C39_HeardIsCurrent ==
    /\ \A l \in shuffleListeners : shuffleHeard[l] = shuffle
    /\ \A l \in loopListeners : loopHeard[l] = loop

\* C40: a skipToNext made with the pointer at the last entry of the order
\* changes nothing under any loop mode: the pointer, the current element, the
\* next element and isPlaying stay as they were and no listener is notified
C40_SkipAtEndIsNoOp ==
    [][op' = "skipToNext" /\ ptr = Len(order) - 1 =>
          /\ ptr' = ptr /\ cur' = cur /\ nxt' = nxt /\ isPlaying' = isPlaying
          /\ playNotes' = <<>> /\ progressNotes' = <<>>
          /\ shuffleHeard' = shuffleHeard /\ loopHeard' = loopHeard]_vars

\* a skipToNext made while the last of several tracks played under loop
\* entire_queue completed and created no element
C40_Witness ==
    /\ op = "skipToNext" /\ loop = "entire_queue" /\ isPlaying
    /\ Len(order) >= 2 /\ ptr = Len(order) - 1
    /\ cur # Null /\ created = 0 /\ plays = 0
    /\ [call |-> "skipToNext", res |-> "ok"] \in rets

====
